---- MODULE Spec2Model ----
(***************************************************************************)
(* Model of the list and dictionary exercises of python/basics/lists.py    *)
(* and python/basics/ds-tuples-sets-dict.py.                               *)
(*                                                                         *)
(* A caller builds list objects on a heap and calls one of the functions   *)
(* on them.  A list is a heap cell holding a sequence; a variable holds a  *)
(* reference (an index into heap), so that aliasing and in-place updates   *)
(* are visible.  Every function is run one statement or loop iteration at  *)
(* a time.  Indices are 0-based as in the source.                          *)
(***************************************************************************)
EXTENDS Integers, Sequences, FiniteSets, TLC

\* ---- bounds of the model ------------------------------------------------
MaxLen == 3
MaxVal == 2
MaxInner == 1
MaxOuter == 2
MaxCalls == 2

Values == 0..MaxVal

RECURSIVE SeqsUpTo(_, _)
SeqsUpTo(S, n) ==
  IF n = 0 THEN {<< >>}
  ELSE LET prev == SeqsUpTo(S, n - 1)
       IN prev \cup {Append(s, x) : s \in {q \in prev : Len(q) = n - 1}, x \in S}

Lists == SeqsUpTo(Values, MaxLen)
InnerLists == SeqsUpTo(Values, MaxInner)
NestedLists == SeqsUpTo(InnerLists, MaxOuter)

\* ---- Python list primitives ----------------------------------------------
\* s[k] is defined for -len(s) <= k < len(s); anything else is an IndexError
ValidIndex(s, k) == k >= 0 - Len(s) /\ k < Len(s)

NormIndex(s, k) == IF k < 0 THEN k + Len(s) ELSE k

\* s[k]
PyAt(s, k) == s[NormIndex(s, k) + 1]

\* the list left by s.pop(k)
PyPop(s, k) ==
  LET n == NormIndex(s, k) + 1
  IN SubSeq(s, 1, n - 1) \o SubSeq(s, n + 1, Len(s))

\* s with s[k] = v
PySet(s, k, v) == [s EXCEPT ![NormIndex(s, k) + 1] = v]

\* slice bound: negative counts from the end, then clamped to 0..len(s)
ClampIndex(s, k) ==
  LET m == IF k < 0 THEN k + Len(s) ELSE k
  IN IF m < 0 THEN 0 ELSE IF m > Len(s) THEN Len(s) ELSE m

\* s[a:b]
PySlice(s, a, b) == SubSeq(s, ClampIndex(s, a) + 1, ClampIndex(s, b))

\* s[:]
PyCopy(s) == SubSeq(s, 1, Len(s))

\* ---- Python dict primitives ----------------------------------------------
EmptyDict == << >>

\* d.get(k, default)
DictGet(dd, k, default) == IF k \in DOMAIN dd THEN dd[k] ELSE default

\* d with d[k] = v
DictSet(dd, k, v) == [x \in (DOMAIN dd) \cup {k} |-> IF x = k THEN v ELSE dd[x]]

\* ---- return values ---------------------------------------------------------
None == [kind |-> "None", val |-> << >>]
Bool(b) == [kind |-> "bool", val |-> b]
Ref(p) == [kind |-> "ref", val |-> p]
Dict(dd) == [kind |-> "dict", val |-> dd]

VARIABLES
  pc,      \* position of the running call: "idle", a statement label, "done", "raised"
  fn,      \* name of the function being called
  heap,    \* the list objects: heap[p] is the contents of the list with reference p
  args,    \* references passed to the call
  pre,     \* the heap as it was when the current call was entered
  i,       \* loop position (0-based index of the next element to process)
  r,       \* local r: a list reference (nested_sum, cumsum) or a boolean (is_sorted)
  d,       \* local dictionary (d in histogram, dict in has_duplicates)
  ret,     \* value returned to the caller
  out,     \* lines written by print during the current call
  err,     \* exception that ended the call, "none" if none
  trace,   \* element accesses t[k] made by the comparisons of the current call
  calls,   \* number of calls entered on the current arguments
  first    \* outcome of the first call on the current arguments

vars == <<pc, fn, heap, args, pre, i, r, d, ret, out, err, trace, calls, first>>

NoOutcome == [ret |-> None, out |-> << >>, err |-> "none", res |-> << >>]

Init ==
  /\ pc = "idle"
  /\ fn = "none"
  /\ heap = << >>
  /\ args = << >>
  /\ pre = << >>
  /\ i = 0
  /\ r = 0
  /\ d = EmptyDict
  /\ ret = None
  /\ out = << >>
  /\ err = "none"
  /\ trace = << >>
  /\ calls = 0
  /\ first = NoOutcome

\* entry label of each function
Entry(f) ==
  CASE f = "nested_sum" -> "nested_sum_init"
    [] f = "cumsum" -> "cumsum_copy"
    [] f = "middle" -> "middle_return"
    [] f = "chop" -> "chop_pop_first"
    [] f = "is_sorted" -> "is_sorted_init"
    [] f = "histogram" -> "histogram_init"
    [] f = "has_duplicates" -> "has_duplicates_init"
    [] f = "is_reverse" -> "is_reverse_len"

\* a call of f on the references a, with the list objects h
Invoke(f, a, h) ==
  /\ pc' = Entry(f)
  /\ fn' = f
  /\ heap' = h
  /\ args' = a
  /\ pre' = h
  /\ i' = 0
  /\ r' = 0
  /\ d' = EmptyDict
  /\ ret' = None
  /\ out' = << >>
  /\ err' = "none"
  /\ trace' = << >>

\* the value a returned reference stands for
Deref(v) == IF v.kind = "ref" THEN heap[v.val] ELSE v.val

\* ---- the caller -----------------------------------------------------------
\* a list of lists: the outer list at reference 1 holds references 2..k+1
CallNested ==
  /\ pc = "idle"
  /\ \E t \in NestedLists :
       Invoke("nested_sum", <<1>>, << [k \in 1..Len(t) |-> k + 1] >> \o t)
  /\ calls' = 1
  /\ UNCHANGED first

CallUnary ==
  /\ pc = "idle"
  /\ \E f \in {"cumsum", "middle", "chop", "is_sorted", "histogram", "has_duplicates"} :
       \E t \in Lists : Invoke(f, <<1>>, <<t>>)
  /\ calls' = 1
  /\ UNCHANGED first

CallBinary ==
  /\ pc = "idle"
  /\ \E w1 \in Lists : \E w2 \in Lists : Invoke("is_reverse", <<1, 2>>, <<w1, w2>>)
  /\ calls' = 1
  /\ UNCHANGED first

\* the caller calls the same function again on the same objects
CallAgain ==
  /\ pc \in {"done", "raised"}
  /\ calls < MaxCalls
  /\ first' = IF calls = 1
              THEN [ret |-> ret, out |-> out, err |-> err, res |-> Deref(ret)]
              ELSE first
  /\ Invoke(fn, args, heap)
  /\ calls' = calls + 1

\* ---- return and raise -----------------------------------------------------
Return(v) ==
  /\ pc' = "done"
  /\ ret' = v

Raise(e) ==
  /\ pc' = "raised"
  /\ err' = e

\* ---- nested_sum(t), lists.py ------------------------------------------------
\* r = []
nested_sum_init ==
  /\ pc = "nested_sum_init"
  /\ heap' = Append(heap, << >>)
  /\ r' = Len(heap) + 1
  /\ pc' = "nested_sum_loop"
  /\ UNCHANGED <<fn, args, pre, i, d, ret, out, err, trace, calls, first>>

\* for i in t: r.extend(i)       (one iteration; i is the position in t)
nested_sum_loop ==
  /\ pc = "nested_sum_loop"
  /\ i < Len(heap[args[1]])
  /\ heap' = [heap EXCEPT ![r] = heap[r] \o heap[PyAt(heap[args[1]], i)]]
  /\ i' = i + 1
  /\ UNCHANGED <<pc, fn, args, pre, r, d, ret, out, err, trace, calls, first>>

\* print(r), then the function ends without a return statement
nested_sum_print ==
  /\ pc = "nested_sum_loop"
  /\ i >= Len(heap[args[1]])
  /\ out' = Append(out, [tag |-> "r", val |-> heap[r]])
  /\ Return(None)
  /\ UNCHANGED <<fn, heap, args, pre, i, r, d, err, trace, calls, first>>

\* ---- cumsum(t), lists.py -----------------------------------------------------
\* variant of cumsum_copy: r = t, an alias of the argument instead of a copy
cumsum_alias ==
  /\ pc = "cumsum_copy"
  /\ r' = args[1]
  /\ pc' = "cumsum_loop"
  /\ UNCHANGED <<fn, heap, args, pre, i, d, ret, out, err, trace, calls, first>>

\* r = t[:]
cumsum_copy ==
  /\ pc = "cumsum_copy"
  /\ heap' = Append(heap, PyCopy(heap[args[1]]))
  /\ r' = Len(heap) + 1
  /\ pc' = "cumsum_loop"
  /\ UNCHANGED <<fn, args, pre, i, d, ret, out, err, trace, calls, first>>

\* for i in range(len(r)): if i > 0: r[i] += r[i-1]       (one iteration)
cumsum_loop ==
  /\ pc = "cumsum_loop"
  /\ i < Len(heap[r])
  /\ heap' = IF i > 0
             THEN [heap EXCEPT ![r] = PySet(@, i, PyAt(@, i) + PyAt(@, i - 1))]
             ELSE heap
  /\ i' = i + 1
  /\ UNCHANGED <<pc, fn, args, pre, r, d, ret, out, err, trace, calls, first>>

\* print(r), then the function ends without a return statement
cumsum_print ==
  /\ pc = "cumsum_loop"
  /\ i >= Len(heap[r])
  /\ out' = Append(out, [tag |-> "r", val |-> heap[r]])
  /\ Return(None)
  /\ UNCHANGED <<fn, heap, args, pre, i, r, d, err, trace, calls, first>>

\* ---- middle(t), lists.py -----------------------------------------------------
\* return t[1:-1]
middle ==
  /\ pc = "middle_return"
  /\ heap' = Append(heap, PySlice(heap[args[1]], 1, -1))
  /\ Return(Ref(Len(heap) + 1))
  /\ UNCHANGED <<fn, args, pre, i, r, d, out, err, trace, calls, first>>

\* ---- chop(t), lists.py -------------------------------------------------------
\* t.pop(0)
chop_pop_first ==
  /\ pc = "chop_pop_first"
  /\ IF ValidIndex(heap[args[1]], 0)
     THEN /\ heap' = [heap EXCEPT ![args[1]] = PyPop(@, 0)]
          /\ pc' = "chop_pop_last"
          /\ UNCHANGED err
     ELSE /\ Raise("IndexError")
          /\ UNCHANGED heap
  /\ UNCHANGED <<fn, args, pre, i, r, d, ret, out, trace, calls, first>>

\* variant of chop_pop_last: the second pop takes the first element again
chop_pop_last_first ==
  /\ pc = "chop_pop_last"
  /\ IF ValidIndex(heap[args[1]], 0)
     THEN /\ heap' = [heap EXCEPT ![args[1]] = PyPop(@, 0)]
          /\ pc' = "chop_return"
          /\ UNCHANGED err
     ELSE /\ Raise("IndexError")
          /\ UNCHANGED heap
  /\ UNCHANGED <<fn, args, pre, i, r, d, ret, out, trace, calls, first>>

\* t.pop(-1)
chop_pop_last ==
  /\ pc = "chop_pop_last"
  /\ IF ValidIndex(heap[args[1]], -1)
     THEN /\ heap' = [heap EXCEPT ![args[1]] = PyPop(@, -1)]
          /\ pc' = "chop_return"
          /\ UNCHANGED err
     ELSE /\ Raise("IndexError")
          /\ UNCHANGED heap
  /\ UNCHANGED <<fn, args, pre, i, r, d, ret, out, trace, calls, first>>

\* return
chop_return ==
  /\ pc = "chop_return"
  /\ Return(None)
  /\ UNCHANGED <<fn, heap, args, pre, i, r, d, out, err, trace, calls, first>>

\* ---- is_sorted(t), lists.py --------------------------------------------------
\* one comparison of two list elements: a and b are <<reference, index>>
Compared(p, j, q, k) == [a |-> <<p, j>>, b |-> <<q, k>>]

\* r = True; the loop runs over range(1, len(t))
is_sorted_init ==
  /\ pc = "is_sorted_init"
  /\ r' = TRUE
  /\ i' = 1
  /\ pc' = "is_sorted_loop"
  /\ UNCHANGED <<fn, heap, args, pre, d, ret, out, err, trace, calls, first>>

\* variant of is_sorted_loop: the comparison is t[i-1] >= t[i]
is_sorted_loop_strict ==
  /\ pc = "is_sorted_loop"
  /\ i < Len(heap[args[1]])
  /\ trace' = Append(trace, Compared(args[1], i - 1, args[1], i))
  /\ LET t == heap[args[1]]
     IN IF PyAt(t, i - 1) >= PyAt(t, i)
        THEN /\ out' = out \o << [tag |-> "i=", val |-> <<i>>],
                                [tag |-> "prev", val |-> <<PyAt(t, i - 1), PyAt(t, i)>>] >>
             /\ r' = FALSE
             /\ pc' = "is_sorted_return"
             /\ UNCHANGED i
        ELSE /\ out' = Append(out, [tag |-> "i=", val |-> <<i>>])
             /\ i' = i + 1
             /\ UNCHANGED <<r, pc>>
  /\ UNCHANGED <<fn, heap, args, pre, d, ret, err, calls, first>>

\* variant of is_sorted_loop: no break after r = False
is_sorted_loop_nobreak ==
  /\ pc = "is_sorted_loop"
  /\ i < Len(heap[args[1]])
  /\ trace' = Append(trace, Compared(args[1], i - 1, args[1], i))
  /\ LET t == heap[args[1]]
     IN IF PyAt(t, i - 1) > PyAt(t, i)
        THEN /\ out' = out \o << [tag |-> "i=", val |-> <<i>>],
                                [tag |-> "prev", val |-> <<PyAt(t, i - 1), PyAt(t, i)>>] >>
             /\ r' = FALSE
        ELSE /\ out' = Append(out, [tag |-> "i=", val |-> <<i>>])
             /\ UNCHANGED r
  /\ i' = i + 1
  /\ UNCHANGED <<pc, fn, heap, args, pre, d, ret, err, calls, first>>

\* print('i=', i); if t[i-1] > t[i]: print(...); r = False; break
is_sorted_loop ==
  /\ pc = "is_sorted_loop"
  /\ i < Len(heap[args[1]])
  /\ trace' = Append(trace, Compared(args[1], i - 1, args[1], i))
  /\ LET t == heap[args[1]]
     IN IF PyAt(t, i - 1) > PyAt(t, i)
        THEN /\ out' = out \o << [tag |-> "i=", val |-> <<i>>],
                                [tag |-> "prev", val |-> <<PyAt(t, i - 1), PyAt(t, i)>>] >>
             /\ r' = FALSE
             /\ pc' = "is_sorted_return"
             /\ UNCHANGED i
        ELSE /\ out' = Append(out, [tag |-> "i=", val |-> <<i>>])
             /\ i' = i + 1
             /\ UNCHANGED <<r, pc>>
  /\ UNCHANGED <<fn, heap, args, pre, d, ret, err, calls, first>>

\* range(1, len(t)) is exhausted
is_sorted_exit ==
  /\ pc = "is_sorted_loop"
  /\ i >= Len(heap[args[1]])
  /\ pc' = "is_sorted_return"
  /\ UNCHANGED <<fn, heap, args, pre, i, r, d, ret, out, err, trace, calls, first>>

\* return r
is_sorted_return ==
  /\ pc = "is_sorted_return"
  /\ Return(Bool(r))
  /\ UNCHANGED <<fn, heap, args, pre, i, r, d, out, err, trace, calls, first>>

\* ---- has_duplicates(t), lists.py ---------------------------------------------
\* dict = {}
has_duplicates_init ==
  /\ pc = "has_duplicates_init"
  /\ d' = EmptyDict
  /\ pc' = "has_duplicates_loop"
  /\ UNCHANGED <<fn, heap, args, pre, i, r, ret, out, err, trace, calls, first>>

\* variant of has_duplicates_loop: dict remembers only the previous element
has_duplicates_loop_forget ==
  /\ pc = "has_duplicates_loop"
  /\ i < Len(heap[args[1]])
  /\ LET x == PyAt(heap[args[1]], i)
     IN IF x \in DOMAIN d
        THEN /\ Return(Bool(TRUE))
             /\ UNCHANGED <<d, i>>
        ELSE /\ d' = DictSet(EmptyDict, x, 1)
             /\ i' = i + 1
             /\ UNCHANGED <<pc, ret>>
  /\ UNCHANGED <<fn, heap, args, pre, r, out, err, trace, calls, first>>

\* for i in t: if i in dict: return True; else: dict[i] = 1
\* (one iteration; the variable i of the model is the position in t)
has_duplicates_loop ==
  /\ pc = "has_duplicates_loop"
  /\ i < Len(heap[args[1]])
  /\ LET x == PyAt(heap[args[1]], i)
     IN IF x \in DOMAIN d
        THEN /\ Return(Bool(TRUE))
             /\ UNCHANGED <<d, i>>
        ELSE /\ d' = DictSet(d, x, 1)
             /\ i' = i + 1
             /\ UNCHANGED <<pc, ret>>
  /\ UNCHANGED <<fn, heap, args, pre, r, out, err, trace, calls, first>>

\* return False
has_duplicates_false ==
  /\ pc = "has_duplicates_loop"
  /\ i >= Len(heap[args[1]])
  /\ Return(Bool(FALSE))
  /\ UNCHANGED <<fn, heap, args, pre, i, r, d, out, err, trace, calls, first>>

\* ---- is_reverse(w1, w2), lists.py --------------------------------------------
\* variant of is_reverse_len: the lengths are not compared
is_reverse_nolen ==
  /\ pc = "is_reverse_len"
  /\ pc' = "is_reverse_loop"
  /\ UNCHANGED <<fn, heap, args, pre, i, r, d, ret, out, err, trace, calls, first>>

\* len1 = len(w1); len2 = len(w2); if len1 != len2: return False
is_reverse_len ==
  /\ pc = "is_reverse_len"
  /\ IF Len(heap[args[1]]) # Len(heap[args[2]])
     THEN Return(Bool(FALSE))
     ELSE /\ pc' = "is_reverse_loop"
          /\ UNCHANGED ret
  /\ UNCHANGED <<fn, heap, args, pre, i, r, d, out, err, trace, calls, first>>

\* for i in range(len1): if w1[i] != w2[len1-1-i]: return False
is_reverse_loop ==
  /\ pc = "is_reverse_loop"
  /\ LET w1 == heap[args[1]]
         w2 == heap[args[2]]
         len1 == Len(heap[args[1]])
     IN /\ i < len1
        /\ trace' = Append(trace, Compared(args[1], i, args[2], len1 - 1 - i))
        /\ IF ~ValidIndex(w1, i) \/ ~ValidIndex(w2, len1 - 1 - i)
           THEN /\ Raise("IndexError")
                /\ UNCHANGED <<i, ret>>
           ELSE IF PyAt(w1, i) # PyAt(w2, len1 - 1 - i)
                THEN /\ Return(Bool(FALSE))
                     /\ UNCHANGED <<i, err>>
                ELSE /\ i' = i + 1
                     /\ UNCHANGED <<pc, ret, err>>
  /\ UNCHANGED <<fn, heap, args, pre, r, d, out, calls, first>>

\* return True
is_reverse_true ==
  /\ pc = "is_reverse_loop"
  /\ i >= Len(heap[args[1]])
  /\ Return(Bool(TRUE))
  /\ UNCHANGED <<fn, heap, args, pre, i, r, d, out, err, trace, calls, first>>

\* ---- histogram(s), ds-tuples-sets-dict.py ------------------------------------
\* d = dict()
histogram_init ==
  /\ pc = "histogram_init"
  /\ d' = EmptyDict
  /\ pc' = "histogram_loop"
  /\ UNCHANGED <<fn, heap, args, pre, i, r, ret, out, err, trace, calls, first>>

\* variant of histogram_loop: d[c] = 1, the earlier count is dropped
histogram_loop_reset ==
  /\ pc = "histogram_loop"
  /\ i < Len(heap[args[1]])
  /\ LET c == PyAt(heap[args[1]], i)
     IN d' = DictSet(d, c, 1)
  /\ i' = i + 1
  /\ UNCHANGED <<pc, fn, heap, args, pre, r, ret, out, err, trace, calls, first>>

\* for c in s: d[c] = d.get(c, 0) + 1       (one iteration)
histogram_loop ==
  /\ pc = "histogram_loop"
  /\ i < Len(heap[args[1]])
  /\ LET c == PyAt(heap[args[1]], i)
     IN d' = DictSet(d, c, DictGet(d, c, 0) + 1)
  /\ i' = i + 1
  /\ UNCHANGED <<pc, fn, heap, args, pre, r, ret, out, err, trace, calls, first>>

\* return d
histogram_return ==
  /\ pc = "histogram_loop"
  /\ i >= Len(heap[args[1]])
  /\ Return(Dict(d))
  /\ UNCHANGED <<fn, heap, args, pre, i, r, d, out, err, trace, calls, first>>

\* ---- the program ---------------------------------------------------------------
Next ==
  \/ CallNested
  \/ CallUnary
  \/ CallBinary
  \/ CallAgain
  \/ nested_sum_init
  \/ nested_sum_loop
  \/ nested_sum_print
  \/ cumsum_copy
  \/ cumsum_loop
  \/ cumsum_print
  \/ middle
  \/ chop_pop_first
  \/ chop_pop_last
  \/ chop_return
  \/ is_sorted_init
  \/ is_sorted_loop
  \/ is_sorted_exit
  \/ is_sorted_return
  \/ has_duplicates_init
  \/ has_duplicates_loop
  \/ has_duplicates_false
  \/ is_reverse_len
  \/ is_reverse_loop
  \/ is_reverse_true
  \/ histogram_init
  \/ histogram_loop
  \/ histogram_return

Spec == Init /\ [][Next]_vars

\* ---- vocabulary of the properties ---------------------------------------------
\* the caller's argument k as it is now, and as it was when the call was entered
Arg(k) == heap[args[k]]
ArgPre(k) == pre[args[k]]

Finished == pc \in {"done", "raised"}

\* concatenation of the lists h[outer[1]], h[outer[2]], ... in that order
RECURSIVE Concat(_, _)
Concat(h, outer) ==
  IF outer = << >> THEN << >> ELSE h[Head(outer)] \o Concat(h, Tail(outer))

RECURSIVE SumLens(_, _)
SumLens(h, outer) ==
  IF outer = << >> THEN 0 ELSE Len(h[Head(outer)]) + SumLens(h, Tail(outer))

\* s[0] + ... + s[k]
RECURSIVE PrefixSum(_, _)
PrefixSum(s, k) == IF k < 0 THEN 0 ELSE s[k + 1] + PrefixSum(s, k - 1)

\* number of occurrences of x among the first n elements of s
Count(s, n, x) == Cardinality({j \in 1..n : s[j] = x})

RECURSIVE SumCounts(_)
SumCounts(dd) ==
  IF DOMAIN dd = {} THEN 0
  ELSE LET k == CHOOSE x \in DOMAIN dd : TRUE
       IN dd[k] + SumCounts([x \in (DOMAIN dd) \ {k} |-> dd[x]])

\* 0-based positions whose element already occurs at a lower position
Repeats(s) == {j \in 0..(Len(s) - 1) : \E k \in 0..(j - 1) : s[k + 1] = s[j + 1]}

\* 0-based positions i >= 1 with s[i-1] > s[i]
Descents(s) == {j \in 1..(Len(s) - 1) : s[j] > s[j + 1]}

Least(S) == CHOOSE x \in S : \A y \in S : x <= y

PureFunctions == {"nested_sum", "cumsum", "middle", "is_sorted", "has_duplicates", "is_reverse"}

\* ---- C1 ---------------------------------------------------------------------------
\* C1: nested_sum(t) returns to its caller a new list that is the concatenation of
\* the inner lists of t in order, whose length is the sum of the inner lengths.
C1_NestedSumReturnsConcat ==
  (pc = "done" /\ fn = "nested_sum") =>
     /\ ret.kind = "ref"
     /\ ret.val \notin 1..Len(pre)
     /\ heap[ret.val] = Concat(pre, ArgPre(1))
     /\ Len(heap[ret.val]) = SumLens(pre, ArgPre(1))

\* ---- C2 ---------------------------------------------------------------------------
\* C2: cumsum(t) returns to its caller a list r of the length of t with
\* r[i] = t[0] + ... + t[i] for every index i (empty for empty t).
C2_CumsumReturnsPrefixSums ==
  (pc = "done" /\ fn = "cumsum") =>
     /\ ret.kind = "ref"
     /\ Len(heap[ret.val]) = Len(ArgPre(1))
     /\ \A k \in 0..(Len(ArgPre(1)) - 1) : PyAt(heap[ret.val], k) = PrefixSum(ArgPre(1), k)

\* ---- C3 ---------------------------------------------------------------------------
\* C3: chop(t) on a list of length >= 2 does not raise; when it returns, the same
\* list object holds the original elements t[1..len-2] in order, and the call
\* returned no value.
C3_ChopRemovesEnds ==
  (fn = "chop" /\ Len(ArgPre(1)) >= 2) =>
     /\ pc # "raised"
     /\ pc = "done" =>
          /\ Arg(1) = SubSeq(ArgPre(1), 2, Len(ArgPre(1)) - 1)
          /\ Len(Arg(1)) = Len(ArgPre(1)) - 2
          /\ ret.kind = "None"

C3_Witness ==
  /\ pc = "done"
  /\ fn = "chop"
  /\ Len(ArgPre(1)) >= 3
  /\ Arg(1) # << >>
  /\ Arg(1)[1] # ArgPre(1)[1]

\* ---- C4 ---------------------------------------------------------------------------
\* C4: histogram(s) returns a mapping whose keys are exactly the distinct elements
\* of s, each mapped to its number of occurrences (>= 1, summing to len(s)); after
\* the first k elements have been processed the counts in the mapping sum to k.
C4_HistogramCounts ==
  (fn = "histogram") =>
     /\ pc = "histogram_loop" =>
          /\ SumCounts(d) = i
          /\ DOMAIN d = {Arg(1)[j] : j \in 1..i}
          /\ \A x \in DOMAIN d : d[x] = Count(Arg(1), i, x)
     /\ pc = "done" =>
          /\ ret.kind = "dict"
          /\ DOMAIN ret.val = {Arg(1)[j] : j \in 1..Len(Arg(1))}
          /\ \A x \in DOMAIN ret.val :
               ret.val[x] = Count(Arg(1), Len(Arg(1)), x) /\ ret.val[x] >= 1
          /\ SumCounts(ret.val) = Len(Arg(1))

C4_Witness ==
  /\ pc = "done"
  /\ fn = "histogram"
  /\ Cardinality(DOMAIN ret.val) >= 2
  /\ \E x \in DOMAIN ret.val : ret.val[x] >= 2

\* ---- C5 ---------------------------------------------------------------------------
\* C5: is_sorted(t) returns true iff t[i-1] <= t[i] for every i in 1..len(t)-1;
\* equal neighbours count as sorted, and lists of length 0 or 1 give true.
C5_IsSortedIffNonDecreasing ==
  (pc = "done" /\ fn = "is_sorted") =>
     /\ ret.kind = "bool"
     /\ ret.val = (\A k \in 1..(Len(Arg(1)) - 1) : PyAt(Arg(1), k - 1) <= PyAt(Arg(1), k))

C5_Witness ==
  /\ pc = "done"
  /\ fn = "is_sorted"
  /\ ret.val = TRUE
  /\ Len(Arg(1)) >= 3
  /\ \E k \in 1..(Len(Arg(1)) - 1) : PyAt(Arg(1), k - 1) = PyAt(Arg(1), k)
  /\ \E k \in 1..(Len(Arg(1)) - 1) : PyAt(Arg(1), k - 1) < PyAt(Arg(1), k)

\* ---- C6 ---------------------------------------------------------------------------
\* C6: has_duplicates(t) returns true iff some element occurs at two positions of
\* t; it returns true at the first position whose element was seen earlier, and
\* false only after every element has been examined.
C6_HasDuplicatesIffRepeat ==
  (pc = "done" /\ fn = "has_duplicates") =>
     /\ ret.kind = "bool"
     /\ ret.val = (\E j, k \in 1..Len(Arg(1)) : j # k /\ Arg(1)[j] = Arg(1)[k])
     /\ ret.val => i = Least(Repeats(Arg(1)))
     /\ ~ret.val => i = Len(Arg(1))

C6_Witness ==
  /\ pc = "done"
  /\ fn = "has_duplicates"
  /\ ret.val = TRUE
  /\ i >= 1
  /\ i < Len(Arg(1)) - 1
  /\ Cardinality(DOMAIN d) = i

\* ---- C7 ---------------------------------------------------------------------------
\* C7: is_reverse(w1, w2) returns false without comparing anything when the
\* lengths differ, and otherwise true iff w1[i] = w2[len-1-i] for every i; it never
\* accesses an index outside either list.
C7_IsReverse ==
  (fn = "is_reverse") =>
     /\ pc # "raised"
     /\ \A n \in 1..Len(trace) :
          /\ trace[n].a[2] \in 0..(Len(heap[trace[n].a[1]]) - 1)
          /\ trace[n].b[2] \in 0..(Len(heap[trace[n].b[1]]) - 1)
     /\ pc = "done" =>
          /\ ret.kind = "bool"
          /\ Len(Arg(1)) # Len(Arg(2)) => (ret.val = FALSE /\ trace = << >>)
          /\ Len(Arg(1)) = Len(Arg(2)) =>
               ret.val = (\A k \in 0..(Len(Arg(1)) - 1) :
                            Arg(1)[k + 1] = Arg(2)[Len(Arg(1)) - k])

C7_Witness ==
  /\ pc = "done"
  /\ fn = "is_reverse"
  /\ ret.val = TRUE
  /\ Len(Arg(1)) >= 3
  /\ Arg(1) # Arg(2)

\* ---- C8 ---------------------------------------------------------------------------
\* C8: nested_sum, cumsum, middle, is_sorted, has_duplicates and is_reverse leave
\* every list the caller passed as it was when the call was entered, at every step
\* of the call, and a second call on the same objects has the outcome of the first.
C8_InputsUnmodified ==
  (fn \in PureFunctions) =>
     /\ \A p \in 1..Len(pre) : heap[p] = pre[p]
     /\ (calls >= 2 /\ Finished) =>
          /\ ret.kind = first.ret.kind
          /\ Deref(ret) = first.res
          /\ out = first.out
          /\ err = first.err

C8_Witness ==
  /\ pc = "done"
  /\ fn = "cumsum"
  /\ calls = 2
  /\ Len(Arg(1)) >= 3
  /\ heap[r] # Arg(1)
  /\ out = first.out

\* ---- C9 ---------------------------------------------------------------------------
\* C9: chop on a list of length 0 or 1 ends in an error, and the failed call leaves
\* the list holding exactly the elements it had before the call.
C9_ChopShortFailsUnchanged ==
  (fn = "chop" /\ Len(ArgPre(1)) < 2 /\ Finished) =>
     /\ pc = "raised"
     /\ err = "IndexError"
     /\ Arg(1) = ArgPre(1)

\* ---- C10 --------------------------------------------------------------------------
\* C10: is_sorted compares adjacent pairs in increasing index order and stops at
\* the first pair with t[i-1] > t[i], returning false; with no such pair each
\* adjacent pair is compared exactly once and the result is true.
C10_IsSortedShortCircuits ==
  (pc = "done" /\ fn = "is_sorted") =>
     LET t == Arg(1)
         last == IF Descents(t) = {} THEN Len(t) - 1 ELSE Least(Descents(t))
     IN /\ Len(trace) = (IF last < 0 THEN 0 ELSE last)
        /\ \A n \in 1..Len(trace) : trace[n] = Compared(args[1], n - 1, args[1], n)
        /\ ret.val = (Descents(t) = {})

C10_Witness ==
  /\ pc = "done"
  /\ fn = "is_sorted"
  /\ ret.val = FALSE
  /\ Len(Arg(1)) >= 3
  /\ Len(trace) < Len(Arg(1)) - 1

====
